---- MODULE Spec2Model ----
(***************************************************************************)
(* The decode-stage scheduler of max/serve/scheduler/decode_scheduler.py:  *)
(* DecodeScheduler.run and the methods it calls, as a state machine.       *)
(* One control-loop iteration ("tick") is                                  *)
(*   run (cancel check, heartbeat, forwarding) -> update_batch (admission  *)
(*   loop, then reservation loop) -> calculate_batch_num_steps ->          *)
(*   schedule_batch (next_token, _handle_terminated_responses,             *)
(*   stream_responses_to_frontend).                                        *)
(* Loops of update_batch advance one iteration per step.                   *)
(***************************************************************************)
EXTENDS Integers, Sequences, FiniteSets, TLC

(* ------------------------------ bounds -------------------------------- *)

\* Largest DecodeSchedulerConfig.max_batch_size_tg Spec constructs the
\* scheduler with.
MainBatchSize == 2

\* Largest DecodeSchedulerConfig.max_forward_steps_tg Spec constructs the
\* scheduler with.
MainForwardSteps == 2

\* Number of distinct requests that ever arrive on the decode socket.
MaxRequests == 3

\* Largest current length a context reaches (caps the generator's output).
MaxLen == 3

\* paged_manager.max_seq_len, the cache manager's sequence-length ceiling.
max_seq_len == 4

\* Largest max_batch_size_tg UpdateBatchSpec constructs the scheduler with.
UpdateBatchSize == 3

\* PlanSpec: largest batch, largest max_forward_steps_tg, largest length and
\* max_length of the contexts it plans for.
PlanBatchSize == 2

PlanForwardSteps == 3

PlanLen == 3

\* Number of new requests the frontend ever puts on the request socket.
MaxNewRequests == 2

(* ----------------------------- constants ------------------------------ *)

\* The value of an unset Optional field (Python None).
None == -1

\* queues.STOP_STREAM, the stop sentinel; token values are all >= 1.
STOP_STREAM == 0

\* The max_length values a request may arrive with (None: no budget).
MaxLengths == {None, MaxLen}

\* The current length a request arrives with (its prefilled prompt).
ArrivalLengths == {1}

(* ------------------------------ helpers ------------------------------- *)

Range(s) == {s[i] : i \in 1 .. Len(s)}

Last(s) == s[Len(s)]

Front(s) == SubSeq(s, 1, Len(s) - 1)

RECURSIVE Remove(_, _)
\* The sequence s without the entries equal to x (del / pop by key).
Remove(s, x) ==
    IF s = <<>> THEN <<>>
    ELSE IF Head(s) = x THEN Remove(Tail(s), x)
    ELSE <<Head(s)>> \o Remove(Tail(s), x)

\* dict[k] = v on a dict held as a function.
DictSet(d, k, v) == [x \in (DOMAIN d) \cup {k} |-> IF x = k THEN v ELSE d[x]]

\* OrderedDict[k] = v on the key order: a new key goes to the tail, an
\* existing key keeps its place.
OrderedSet(keys, k) == IF k \in Range(keys) THEN keys ELSE Append(keys, k)

Max(a, b) == IF a > b THEN a ELSE b

(* ------------------------------- state -------------------------------- *)

VARIABLES
    pc,                      \* position of run() in its loop
    canceled,                \* what pc.is_canceled() returns
    canceled_in,             \* the position run() was at when it was canceled
    scheduler_config,        \* self.scheduler_config, fixed at construction
    active_batch,            \* keys of self.active_batch, in insertion order
    contexts,                \* the InputContext object of every live request
    available_cache_indices, \* self.available_cache_indices
    preempted_decode,        \* self.preempted_decode (FIFO of request ids)
    decode_pull_socket,      \* requests waiting on the decode socket
    next_request,            \* the id the next arriving request gets
    candidate_requests,      \* update_batch's working deque
    evictions,               \* return_to_decode_queue calls of the running update_batch
    num_steps,               \* run()'s num_steps
    responses,               \* what next_token returned in the latest tick
    executed,                \* key order of the batch given to next_token
    reported_done,           \* <<request id, slot>> of the latest tick's terminations
    response_push_socket,    \* messages pushed by the latest schedule_batch
    released,                \* pipeline.release calls since the last admission
                             \* phase ended: <<request id, slot held>>, in order
    reserved,                \* requests whose latest prefetch of this tick succeeded
    request_pull_socket,     \* new requests waiting on the request socket
    prefill_push_socket,     \* requests pushed to the prefill socket so far
    next_new_request         \* the id the next new request gets

vars == <<pc, canceled, canceled_in, scheduler_config, active_batch, contexts, available_cache_indices,
          preempted_decode, decode_pull_socket, next_request,
          candidate_requests, evictions, num_steps, responses, executed,
          reported_done, response_push_socket, released, reserved,
          request_pull_socket, prefill_push_socket, next_new_request>>

\* The sockets of the forwarding path.
forwarding == <<request_pull_socket, prefill_push_socket, next_new_request>>

max_batch_size_tg == scheduler_config.max_batch_size_tg

max_forward_steps_tg == scheduler_config.max_forward_steps_tg

\* range(self.scheduler_config.max_batch_size_tg)
CacheIndices == 0 .. (max_batch_size_tg - 1)

(* --------------------------- InputContext ----------------------------- *)

\* A context as it arrives from the prefill stage: no cache slot yet.
NewContext(max_length, length) ==
    [cache_seq_id |-> None, max_length |-> max_length,
     length |-> length, progress |-> length]

is_assigned_to_cache(context) == context.cache_seq_id # None

assign_to_cache(context, cache_seq_id) ==
    [context EXCEPT !.cache_seq_id = cache_seq_id]

\* InputContext.compute_num_available_steps(bound): the steps left before
\* the context's length reaches bound.
compute_num_available_steps(context, bound) == bound - context.length

\* InputContext.reset(): the generation progress pointer goes back to 0.
reset(context) == [context EXCEPT !.progress = 0]

\* TokenGenerator.release(context): the generator drops the request's state
\* and the context gives up its slot assignment.
release(context) == [context EXCEPT !.cache_seq_id = None]

\* PagedKVCacheManager.prefetch(context, num_steps): the outcomes it can have.
prefetch(context, steps) == BOOLEAN

(* ------------------------------- Init --------------------------------- *)

\* DecodeScheduler.__init__ with the given configuration.
Construct(batch_size, forward_steps) ==
    /\ scheduler_config = [max_batch_size_tg |-> batch_size,
                           max_forward_steps_tg |-> forward_steps]
    /\ pc = "run"
    /\ canceled = FALSE
    /\ canceled_in = "none"
    /\ active_batch = <<>>
    /\ contexts = <<>>
    /\ available_cache_indices = 0 .. (batch_size - 1)
    /\ preempted_decode = <<>>
    /\ decode_pull_socket = <<>>
    /\ next_request = 1
    /\ candidate_requests = <<>>
    /\ evictions = 0
    /\ num_steps = 0
    /\ responses = <<>>
    /\ executed = <<>>
    /\ reported_done = {}
    /\ response_push_socket = <<>>
    /\ released = <<>>
    /\ reserved = {}
    /\ request_pull_socket = <<>>
    /\ prefill_push_socket = <<>>
    /\ next_new_request = 1

\* The scheduler as constructed, for every configuration within the bounds.
Init ==
    \E batch_size \in 1 .. MainBatchSize,
       forward_steps \in 1 .. MainForwardSteps :
        Construct(batch_size, forward_steps)

(* ------------------------- environment steps -------------------------- *)

\* The prefill stage hands a prefilled request to the decode socket.  The
\* scheduler reads this socket only inside update_batch's admission loop,
\* head first, and leaves the loop the first time it finds it empty: an
\* arrival at any later point of a tick is seen exactly as one at the top of
\* this tick or of the next, so arrivals are taken at the top of a tick.
DecodeArrival ==
    /\ pc = "forward"
    /\ next_request <= MaxRequests
    /\ \E max_length \in MaxLengths, length \in ArrivalLengths :
          contexts' = contexts @@
                      (next_request :> NewContext(max_length, length))
    /\ decode_pull_socket' = Append(decode_pull_socket, next_request)
    /\ next_request' = next_request + 1
    /\ UNCHANGED <<pc, canceled, canceled_in, scheduler_config, active_batch, available_cache_indices,
                   preempted_decode, candidate_requests, evictions, num_steps,
                   responses, executed, reported_done, response_push_socket,
                   released, reserved, forwarding>>

\* ProcessControl is canceled by the supervisor, at any moment.
Cancel ==
    /\ ~canceled
    /\ pc # "exit"
    /\ canceled' = TRUE
    /\ canceled_in' = pc
    /\ UNCHANGED <<pc, scheduler_config, active_batch, contexts,
                   available_cache_indices, preempted_decode,
                   decode_pull_socket, next_request, candidate_requests,
                   evictions, num_steps, responses, executed, reported_done,
                   response_push_socket, released, reserved, forwarding>>

(* ------------------------------- run ---------------------------------- *)

\* RunTop without the test of is_canceled(): while True.
RunTopNoCancelCheck ==
    /\ pc = "run"
    /\ pc' = "forward"
    /\ responses' = <<>>
    /\ executed' = <<>>
    /\ response_push_socket' = <<>>
    /\ reserved' = {}
    /\ UNCHANGED <<canceled, canceled_in, scheduler_config, active_batch, contexts, available_cache_indices,
                   preempted_decode, decode_pull_socket, next_request,
                   candidate_requests, evictions, num_steps, reported_done,
                   released, forwarding>>

\* run() lines 361-363: the loop test and the heartbeat.  The frontend has
\* taken the previous tick's message off the response socket by now.
RunTop ==
    /\ pc = "run"
    /\ pc' = IF canceled THEN "exit" ELSE "forward"
    /\ responses' = <<>>
    /\ executed' = <<>>
    /\ response_push_socket' = <<>>
    /\ reserved' = {}
    /\ UNCHANGED <<canceled, canceled_in, scheduler_config, active_batch, contexts, available_cache_indices,
                   preempted_decode, decode_pull_socket, next_request,
                   candidate_requests, evictions, num_steps, reported_done,
                   released, forwarding>>

\* The frontend puts a new request on the request socket.  The scheduler
\* reads this socket only in the drain loop of
\* reserve_memory_and_send_to_prefill, so arrivals are taken just before it.
RequestArrival ==
    /\ pc = "forward"
    /\ next_new_request <= MaxNewRequests
    /\ request_pull_socket' = Append(request_pull_socket, next_new_request)
    /\ next_new_request' = next_new_request + 1
    /\ UNCHANGED <<pc, canceled, canceled_in, scheduler_config, active_batch, contexts,
                   available_cache_indices, preempted_decode,
                   decode_pull_socket, next_request, candidate_requests,
                   evictions, num_steps, responses, executed, reported_done,
                   response_push_socket, released, reserved,
                   prefill_push_socket>>

\* What ends the drain loop: get_nowait raises queue.Empty on an empty
\* socket, or the pull or the push raises zmq.ZMQError.
ForwardExceptions == {"queue.Empty", "pull zmq.ZMQError", "push zmq.ZMQError"}

\* The handler catching queue.Empty only: any other exception leaves run().
ForwardExitEmptyOnly(exception) ==
    IF exception = "queue.Empty" THEN "admit" ELSE "error"

\* Lines 173-175: the bare except breaks the loop whatever was raised, and
\* run() goes on to update_batch.
ForwardExit(exception) == "admit"

\* reserve_memory_and_send_to_prefill(): the drain loop forwards the first
\* k waiting requests, then an exception ends it.  A request whose push
\* raised has left the request socket and reaches no socket.
ForwardToPrefill ==
    /\ pc = "forward"
    /\ \E k \in 0 .. Len(request_pull_socket), exception \in ForwardExceptions :
          LET pulled == IF exception = "push zmq.ZMQError" THEN k + 1 ELSE k
          IN  /\ exception = "queue.Empty" => k = Len(request_pull_socket)
              /\ pulled <= Len(request_pull_socket)
              /\ prefill_push_socket' =
                     prefill_push_socket \o SubSeq(request_pull_socket, 1, k)
              /\ request_pull_socket' =
                     SubSeq(request_pull_socket, pulled + 1,
                            Len(request_pull_socket))
              /\ pc' = ForwardExit(exception)
    /\ UNCHANGED <<canceled, canceled_in, scheduler_config, active_batch, contexts, available_cache_indices,
                   preempted_decode, decode_pull_socket, next_request,
                   candidate_requests, evictions, num_steps, responses,
                   executed, reported_done, response_push_socket, released,
                   reserved, next_new_request>>

(* --------------------------- update_batch ----------------------------- *)

\* pull_from_decode_socket trying the decode socket before the preempted
\* queue.
pull_from_decode_socket_first ==
    IF decode_pull_socket # <<>> THEN "socket"
    ELSE IF preempted_decode # <<>> THEN "preempted"
    ELSE "empty"

\* pull_from_decode_socket(): the source the next request comes from,
\* "preempted", "socket", or "empty" (queue.Empty is raised).
pull_from_decode_socket ==
    IF preempted_decode # <<>> THEN "preempted"
    ELSE IF decode_pull_socket # <<>> THEN "socket"
    ELSE "empty"

\* The request pull_from_decode_socket returns.
PulledRequest ==
    IF pull_from_decode_socket = "preempted" THEN Head(preempted_decode)
    ELSE Head(decode_pull_socket)

\* The queues after pull_from_decode_socket returned a request.
PullEffect ==
    IF pull_from_decode_socket = "preempted"
    THEN /\ preempted_decode' = Tail(preempted_decode)
         /\ UNCHANGED decode_pull_socket
    ELSE /\ decode_pull_socket' = Tail(decode_pull_socket)
         /\ UNCHANGED preempted_decode

\* AssignToCache reading a free slot without taking it out of the set
\* (a peek where the code pops).
AssignToCachePeek(request_id) ==
    IF is_assigned_to_cache(contexts[request_id])
    THEN UNCHANGED <<contexts, available_cache_indices>>
    ELSE \E cache_seq_id \in available_cache_indices :
            /\ contexts' = [contexts EXCEPT ![request_id] =
                               assign_to_cache(@, cache_seq_id)]
            /\ UNCHANGED available_cache_indices

\* AssignToCache taking any slot of the pool, free or not.
AssignToCacheAny(request_id) ==
    IF is_assigned_to_cache(contexts[request_id])
    THEN UNCHANGED <<contexts, available_cache_indices>>
    ELSE \E cache_seq_id \in CacheIndices :
            /\ contexts' = [contexts EXCEPT ![request_id] =
                               assign_to_cache(@, cache_seq_id)]
            /\ available_cache_indices' =
                   available_cache_indices \ {cache_seq_id}

\* Lines 203-206: a context without a slot takes one out of the free set
\* (set.pop() returns an arbitrary member).
AssignToCache(request_id) ==
    IF is_assigned_to_cache(contexts[request_id])
    THEN UNCHANGED <<contexts, available_cache_indices>>
    ELSE \E cache_seq_id \in available_cache_indices :
            /\ contexts' = [contexts EXCEPT ![request_id] =
                               assign_to_cache(@, cache_seq_id)]
            /\ available_cache_indices' =
                   available_cache_indices \ {cache_seq_id}

\* The span of the admission loop in which its test holds.
AdmitLoopTest == available_cache_indices # {}

\* One iteration of the admission loop that admits a request.
AdmitRequest ==
    /\ pc = "admit"
    /\ AdmitLoopTest
    /\ pull_from_decode_socket # "empty"
    /\ PullEffect
    /\ AssignToCache(PulledRequest)
    /\ active_batch' = OrderedSet(active_batch, PulledRequest)
    /\ reported_done' = {}
    /\ UNCHANGED <<pc, canceled, canceled_in, scheduler_config, next_request, candidate_requests, evictions,
                   num_steps, responses, executed, response_push_socket,
                   released, reserved, forwarding>>

\* The admission loop ends (no free slot, or queue.Empty) and the
\* reservation loop starts on the keys of the active batch.
AdmitDone ==
    /\ pc = "admit"
    /\ (~AdmitLoopTest \/ pull_from_decode_socket = "empty")
    /\ candidate_requests' = active_batch
    /\ pc' = "reserve"
    /\ reported_done' = {}
    /\ released' = <<>>
    /\ UNCHANGED <<canceled, canceled_in, scheduler_config, active_batch, contexts, available_cache_indices,
                   preempted_decode, decode_pull_socket, next_request,
                   evictions, num_steps, responses, executed,
                   response_push_socket, reserved, forwarding>>

\* return_to_decode_queue without line 186: the slot is not given back.
return_to_decode_queue_keeps_slot(request_id) ==
    /\ UNCHANGED available_cache_indices
    /\ contexts' = [contexts EXCEPT ![request_id] = reset(release(@))]
    /\ released' = Append(released,
                          <<request_id, contexts[request_id].cache_seq_id>>)
    /\ preempted_decode' = Append(preempted_decode, request_id)
    /\ evictions' = evictions + 1

\* return_to_decode_queue without line 189: the request is put nowhere.
return_to_decode_queue_no_put(request_id) ==
    /\ available_cache_indices' =
           available_cache_indices \cup {contexts[request_id].cache_seq_id}
    /\ contexts' = [contexts EXCEPT ![request_id] = reset(release(@))]
    /\ released' = Append(released,
                          <<request_id, contexts[request_id].cache_seq_id>>)
    /\ UNCHANGED preempted_decode
    /\ evictions' = evictions + 1

\* return_to_decode_queue without line 188: the progress is not reset.
return_to_decode_queue_no_reset(request_id) ==
    /\ available_cache_indices' =
           available_cache_indices \cup {contexts[request_id].cache_seq_id}
    /\ contexts' = [contexts EXCEPT ![request_id] = release(@)]
    /\ released' = Append(released,
                          <<request_id, contexts[request_id].cache_seq_id>>)
    /\ preempted_decode' = Append(preempted_decode, request_id)
    /\ evictions' = evictions + 1

\* return_to_decode_queue without line 187: the generator is not told.
return_to_decode_queue_no_release(request_id) ==
    /\ available_cache_indices' =
           available_cache_indices \cup {contexts[request_id].cache_seq_id}
    /\ contexts' = [contexts EXCEPT ![request_id] = reset(@)]
    /\ UNCHANGED released
    /\ preempted_decode' = Append(preempted_decode, request_id)
    /\ evictions' = evictions + 1

\* return_to_decode_queue(request_id, data).
return_to_decode_queue(request_id) ==
    /\ available_cache_indices' =
           available_cache_indices \cup {contexts[request_id].cache_seq_id}
    /\ contexts' = [contexts EXCEPT ![request_id] = reset(release(@))]
    /\ released' = Append(released,
                          <<request_id, contexts[request_id].cache_seq_id>>)
    /\ preempted_decode' = Append(preempted_decode, request_id)
    /\ evictions' = evictions + 1

\* Lines 225-234: the steps to reserve for one candidate.
ReserveNumSteps(context) ==
    LET num_available_steps == compute_num_available_steps(context, max_seq_len)
    IN  IF max_forward_steps_tg < num_available_steps
        THEN max_forward_steps_tg
        ELSE num_available_steps

\* EvictSelf without line 242: the failing candidate stays in the batch.
EvictSelfKeepsActive(request_id) ==
    /\ return_to_decode_queue(request_id)
    /\ UNCHANGED active_batch
    /\ candidate_requests' = <<>>

\* Lines 237-243: the failing candidate is the only one left.
EvictSelf(request_id) ==
    /\ return_to_decode_queue(request_id)
    /\ active_batch' = Remove(active_batch, request_id)
    /\ candidate_requests' = <<>>

\* EvictNewest without line 247: the victim stays in the active batch.
EvictNewestKeepsActive(request_id, rest) ==
    LET newest_request_id == Last(rest)
    IN  /\ return_to_decode_queue(newest_request_id)
        /\ UNCHANGED active_batch
        /\ candidate_requests' = <<request_id>> \o Front(rest)

\* EvictNewest taking the victim from the front of the deque (popleft for
\* pop).
EvictOldest(request_id, rest) ==
    LET newest_request_id == Head(rest)
    IN  /\ return_to_decode_queue(newest_request_id)
        /\ active_batch' = Remove(active_batch, newest_request_id)
        /\ candidate_requests' = <<request_id>> \o Tail(rest)

\* EvictNewest reading the tail of the deque without removing it.
EvictNewestKeepsCandidate(request_id, rest) ==
    LET newest_request_id == Last(rest)
    IN  /\ return_to_decode_queue(newest_request_id)
        /\ active_batch' = Remove(active_batch, newest_request_id)
        /\ candidate_requests' = <<request_id>> \o rest

\* Lines 245-253: the newest candidate goes, the failing one retries.
EvictNewest(request_id, rest) ==
    LET newest_request_id == Last(rest)
    IN  /\ return_to_decode_queue(newest_request_id)
        /\ active_batch' = Remove(active_batch, newest_request_id)
        /\ candidate_requests' = <<request_id>> \o Front(rest)

\* One iteration of the reservation loop.
ReserveStep ==
    /\ pc = "reserve"
    /\ candidate_requests # <<>>
    /\ LET request_id == Head(candidate_requests)
           rest == Tail(candidate_requests)
           context == contexts[request_id]
       IN  \E ok \in prefetch(context, ReserveNumSteps(context)) :
              IF ok
              THEN /\ candidate_requests' = rest
                   /\ reserved' = reserved \cup {request_id}
                   /\ UNCHANGED <<active_batch, contexts,
                                  available_cache_indices, preempted_decode,
                                  evictions, released>>
              ELSE /\ reserved' = reserved \ {request_id}
                   /\ IF Len(rest) = 0
                      THEN EvictSelf(request_id)
                      ELSE EvictNewest(request_id, rest)
    /\ UNCHANGED <<pc, canceled, canceled_in, scheduler_config, decode_pull_socket, next_request, num_steps,
                   responses, executed, reported_done, response_push_socket,
                   forwarding>>

\* ReserveDone without lines 372-373: run() goes on to plan the steps of an
\* empty batch.
ReserveDoneNoSkip ==
    /\ pc = "reserve"
    /\ candidate_requests = <<>>
    /\ pc' = "plan"
    /\ evictions' = 0
    /\ UNCHANGED <<canceled, canceled_in, scheduler_config, active_batch, contexts, available_cache_indices,
                   preempted_decode, decode_pull_socket, next_request,
                   candidate_requests, num_steps, responses,
                   executed, reported_done, response_push_socket, released,
                   reserved, forwarding>>

\* update_batch returns; run() skips the tick when the batch is empty.
ReserveDone ==
    /\ pc = "reserve"
    /\ candidate_requests = <<>>
    /\ pc' = IF active_batch = <<>> THEN "run" ELSE "plan"
    /\ evictions' = 0
    /\ UNCHANGED <<canceled, canceled_in, scheduler_config, active_batch, contexts, available_cache_indices,
                   preempted_decode, decode_pull_socket, next_request,
                   candidate_requests, num_steps, responses,
                   executed, reported_done, response_push_socket, released,
                   reserved, forwarding>>

(* --------------------- calculate_batch_num_steps ---------------------- *)

\* PlanReturn without the comparison against max_forward_steps_tg.
PlanReturnUncapped(batch_available_steps) ==
    IF batch_available_steps > 0
    THEN batch_available_steps
    ELSE max_forward_steps_tg

\* Lines 283-290: the plan returned for the largest per-request value.
PlanReturn(batch_available_steps) ==
    IF /\ batch_available_steps > 0
       /\ batch_available_steps < max_forward_steps_tg
    THEN batch_available_steps
    ELSE max_forward_steps_tg

RECURSIVE BatchAvailableStepsMin(_, _)
\* BatchAvailableSteps keeping the smallest per-request value instead of
\* the largest.
BatchAvailableStepsMin(keys, batch_available_steps) ==
    IF keys = <<>>
    THEN PlanReturn(batch_available_steps)
    ELSE LET data == contexts[Head(keys)]
         IN  IF data.max_length = None
             THEN max_forward_steps_tg
             ELSE LET request_available_steps ==
                          compute_num_available_steps(data, data.max_length)
                  IN  BatchAvailableStepsMin(
                          Tail(keys),
                          IF \/ batch_available_steps = -1
                             \/ request_available_steps < batch_available_steps
                          THEN request_available_steps
                          ELSE batch_available_steps)

RECURSIVE BatchAvailableSteps(_, _)
\* Lines 270-281: the loop over active_batch.values() from the key list
\* keys on, with the running maximum batch_available_steps.
BatchAvailableSteps(keys, batch_available_steps) ==
    IF keys = <<>>
    THEN PlanReturn(batch_available_steps)
    ELSE LET data == contexts[Head(keys)]
         IN  IF data.max_length = None
             THEN max_forward_steps_tg
             ELSE LET request_available_steps ==
                          compute_num_available_steps(data, data.max_length)
                  IN  BatchAvailableSteps(
                          Tail(keys),
                          IF request_available_steps > batch_available_steps
                          THEN request_available_steps
                          ELSE batch_available_steps)

\* calculate_batch_num_steps() on a non-empty active batch.
calculate_batch_num_steps == BatchAvailableSteps(active_batch, -1)

\* run() line 376; an empty batch raises RuntimeError (lines 265-268).
PlanSteps ==
    /\ pc = "plan"
    /\ IF active_batch = <<>>
       THEN /\ pc' = "error"
            /\ UNCHANGED num_steps
       ELSE /\ pc' = "schedule"
            /\ num_steps' = calculate_batch_num_steps
    /\ UNCHANGED <<canceled, canceled_in, scheduler_config, active_batch, contexts, available_cache_indices,
                   preempted_decode, decode_pull_socket, next_request,
                   candidate_requests, evictions, responses, executed,
                   reported_done, response_push_socket, released, reserved,
                   forwarding>>

(* --------------------------- schedule_batch --------------------------- *)

\* The tokens a request produces in one next_token call: n of them, each
\* named by its position in the request's sequence.
GeneratedTokens(context, n) == [i \in 1 .. n |-> context.length + i]

\* TokenGenerator.next_token(batch, num_steps): every result it can return,
\* one TextGenerationResponse per member of the batch, each with at most
\* steps tokens and a termination flag.
next_token(batch, steps) ==
    LET Outcomes == [n : 0 .. steps, is_done : BOOLEAN]
        Choices == {c \in [Range(batch) -> Outcomes] :
                       \A r \in Range(batch) :
                           contexts[r].length + c[r].n <= MaxLen}
    IN  {[r \in Range(batch) |->
             [tokens |-> GeneratedTokens(contexts[r], c[r].n),
              is_done |-> c[r].is_done]] : c \in Choices}

\* The contexts after next_token appended the generated tokens.
AfterNextToken(ctxs, resp) ==
    [r \in DOMAIN ctxs |->
        IF r \in DOMAIN resp
        THEN [ctxs[r] EXCEPT !.length = @ + Len(resp[r].tokens),
                             !.progress = ctxs[r].length + Len(resp[r].tokens)]
        ELSE ctxs[r]]

\* ReleaseTerminated without line 339: the slot is not given back.
ReleaseTerminatedKeepsSlot(request_id, st) ==
    [active_batch |-> Remove(st.active_batch, request_id),
     available_cache_indices |-> st.available_cache_indices,
     contexts |-> [st.contexts EXCEPT ![request_id] = release(@)],
     released |-> Append(st.released,
                         <<request_id, st.contexts[request_id].cache_seq_id>>)]

\* Lines 336-340: one terminated request gives up its slot and leaves the
\* batch; st holds active_batch, available_cache_indices, contexts and the
\* release calls made.
ReleaseTerminated(request_id, st) ==
    LET cache_id == st.contexts[request_id].cache_seq_id
    IN  [active_batch |-> Remove(st.active_batch, request_id),
         available_cache_indices |->
             st.available_cache_indices \cup {cache_id},
         contexts |-> [st.contexts EXCEPT ![request_id] = release(@)],
         released |-> Append(st.released, <<request_id, cache_id>>)]

RECURSIVE HandleTerminatedLoop(_, _, _)
\* Lines 334-335: the loop over responses.items() from the key list keys on.
HandleTerminatedLoop(keys, resp, st) ==
    IF keys = <<>> THEN st
    ELSE HandleTerminatedLoop(
             Tail(keys), resp,
             IF resp[Head(keys)].is_done
             THEN ReleaseTerminated(Head(keys), st)
             ELSE st)

\* _handle_terminated_responses(responses), responses iterated in the order
\* keys.
handle_terminated_responses(keys, resp, st) ==
    HandleTerminatedLoop(keys, resp, st)

\* PadFrames without the frame for the stop sentinel.
PadFramesTokensOnly(frames, response) ==
    LET need == Len(response.tokens)
    IN  IF need > Len(frames)
        THEN frames \o [i \in 1 .. (need - Len(frames)) |-> <<>>]
        ELSE frames

\* Lines 308-311: frames are appended until the request's output fits.
PadFrames(frames, response) ==
    LET need == Len(response.tokens) + (IF response.is_done THEN 1 ELSE 0)
    IN  IF need > Len(frames)
        THEN frames \o [i \in 1 .. (need - Len(frames)) |-> <<>>]
        ELSE frames

\* Lines 313-314: token token_idx (0-based) goes to frame token_idx.
PlaceTokens(frames, request_id, response) ==
    [i \in 1 .. Len(frames) |->
        IF i <= Len(response.tokens)
        THEN DictSet(frames[i], request_id, response.tokens[i])
        ELSE frames[i]]

\* PlaceStop one frame early, over the request's last token.
PlaceStopEarly(frames, request_id, response) ==
    IF response.is_done /\ Len(response.tokens) > 0
    THEN [frames EXCEPT ![Len(response.tokens)] =
             DictSet(@, request_id, STOP_STREAM)]
    ELSE frames

\* Lines 316-319: the stop sentinel goes to frame len(response.tokens).
PlaceStop(frames, request_id, response) ==
    IF response.is_done
    THEN [frames EXCEPT ![Len(response.tokens) + 1] =
             DictSet(@, request_id, STOP_STREAM)]
    ELSE frames

RECURSIVE StreamLoop(_, _, _)
\* Lines 305-319: the loop over responses.items() from the key list keys on.
StreamLoop(keys, resp, stream_responses) ==
    IF keys = <<>> THEN stream_responses
    ELSE LET request_id == Head(keys)
             response == resp[request_id]
         IN  StreamLoop(
                 Tail(keys), resp,
                 PlaceStop(
                     PlaceTokens(PadFrames(stream_responses, response),
                                 request_id, response),
                     request_id, response))

\* stream_responses_to_frontend(responses): the messages it pushes (none for
\* an empty dict, else one frame list built from [{}]).
stream_responses_to_frontend(keys, resp) ==
    IF keys = <<>> THEN <<>>
    ELSE <<StreamLoop(keys, resp, << <<>> >>)>>

\* The requests a result reports terminated, each with the slot it held
\* when next_token was called.
ReportedDone(resp) ==
    {<<r, contexts[r].cache_seq_id>> : r \in {x \in DOMAIN resp : resp[x].is_done}}

\* schedule_batch(num_steps).  The contexts of the requests that left the
\* batch are dropped with the last reference to them.
ScheduleBatch ==
    /\ pc = "schedule"
    /\ \E resp \in next_token(active_batch, num_steps) :
          LET st == handle_terminated_responses(
                        active_batch, resp,
                        [active_batch |-> active_batch,
                         available_cache_indices |-> available_cache_indices,
                         contexts |-> AfterNextToken(contexts, resp),
                         released |-> released])
          IN  /\ responses' = resp
              /\ executed' = active_batch
              /\ active_batch' = st.active_batch
              /\ available_cache_indices' = st.available_cache_indices
              /\ contexts' = [r \in {x \in DOMAIN st.contexts :
                                        x \in DOMAIN resp => ~resp[x].is_done}
                                 |-> st.contexts[r]]
              /\ reported_done' = ReportedDone(resp)
              /\ released' = st.released
              /\ response_push_socket' =
                     stream_responses_to_frontend(active_batch, resp)
    /\ pc' = "run"
    /\ num_steps' = 0
    /\ UNCHANGED <<canceled, canceled_in, scheduler_config, preempted_decode,
                   decode_pull_socket, next_request, candidate_requests,
                   evictions, reserved, forwarding>>

(* ------------------------------- Spec --------------------------------- *)

\* The scheduler's own steps.
SchedulerStep ==
    \/ RunTop
    \/ ForwardToPrefill
    \/ AdmitRequest
    \/ AdmitDone
    \/ ReserveStep
    \/ ReserveDone
    \/ PlanSteps
    \/ ScheduleBatch

Next ==
    \/ DecodeArrival
    \/ SchedulerStep

\* The scheduler with requests arriving; cancellation, which only ends the
\* loop at RunTop, is left to CancelSpec.
Spec == Init /\ [][Next]_vars

NextOrCancel ==
    \/ Next
    \/ Cancel

\* The scheduler on a pool of one slot, canceled at any moment.
CancelInit ==
    \E forward_steps \in 1 .. MainForwardSteps : Construct(1, forward_steps)

CancelSpec == CancelInit /\ [][NextOrCancel]_vars

\* run() is one sequential thread whose calls all return: while it has a
\* step to take it takes one.
FairCancelSpec == CancelSpec /\ WF_vars(SchedulerStep)

\* The scheduler on a pool of one slot with the frontend sending new
\* requests to forward.
ForwardInit ==
    \E forward_steps \in 1 .. MainForwardSteps : Construct(1, forward_steps)

ForwardNext ==
    \/ RequestArrival
    \/ Next

ForwardSpec == ForwardInit /\ [][ForwardNext]_vars

\* update_batch alone, on a larger pool: the scheduler up to the first tick
\* whose batch survives the reservation phase.
UpdateBatchInit ==
    \E batch_size \in 1 .. UpdateBatchSize :
        Construct(batch_size, MainForwardSteps)

UpdateBatchNext ==
    \/ DecodeArrival
    \/ RunTop
    \/ ForwardToPrefill
    \/ AdmitRequest
    \/ AdmitDone
    \/ ReserveStep
    \/ ReserveDone

UpdateBatchSpec == UpdateBatchInit /\ [][UpdateBatchNext]_vars

\* The contexts PlanSpec plans for: every budget and every length.
PlanContexts ==
    [cache_seq_id : {None}, max_length : {None} \cup (1 .. PlanLen),
     length : 1 .. PlanLen, progress : {0}]

\* calculate_batch_num_steps alone: run() is about to call it on a batch of
\* k admitted requests, each holding a slot of its own.
PlanInit ==
    /\ \E forward_steps \in 1 .. PlanForwardSteps :
          scheduler_config = [max_batch_size_tg |-> PlanBatchSize,
                              max_forward_steps_tg |-> forward_steps]
    /\ \E k \in 1 .. PlanBatchSize :
          /\ active_batch = [i \in 1 .. k |-> i]
          /\ \E cs \in [1 .. k -> PlanContexts] :
                contexts = [i \in 1 .. k |->
                               [assign_to_cache(cs[i], i - 1)
                                   EXCEPT !.progress = cs[i].length]]
          /\ available_cache_indices = k .. (PlanBatchSize - 1)
          /\ next_request = k + 1
    /\ pc = "plan"
    /\ canceled = FALSE
    /\ canceled_in = "none"
    /\ preempted_decode = <<>>
    /\ decode_pull_socket = <<>>
    /\ candidate_requests = <<>>
    /\ evictions = 0
    /\ num_steps = 0
    /\ responses = <<>>
    /\ executed = <<>>
    /\ reported_done = {}
    /\ response_push_socket = <<>>
    /\ released = <<>>
    /\ reserved = {i \in 1 .. PlanBatchSize : i \in Range(active_batch)}
    /\ request_pull_socket = <<>>
    /\ prefill_push_socket = <<>>
    /\ next_new_request = 1

PlanNext == PlanSteps

PlanSpec == PlanInit /\ [][PlanNext]_vars

TypeOK ==
    /\ pc \in {"run", "forward", "admit", "reserve", "plan", "schedule",
               "exit", "error"}
    /\ available_cache_indices \subseteq CacheIndices
    /\ Range(active_batch) \subseteq DOMAIN contexts

(* ------------------------------ claims -------------------------------- *)

\* The requests that hold a slot, wherever they are.
SlotHolders == {r \in DOMAIN contexts : is_assigned_to_cache(contexts[r])}

\* The position of x in the sequence s (0 when absent).
IndexOf(s, x) ==
    IF x \in Range(s) THEN CHOOSE i \in 1 .. Len(s) : s[i] = x ELSE 0

\* A member of the active batch that was preempted and has been re-admitted
\* (its progress is still reset: it has not run since).
Readmitted(r) == r \in Range(active_batch) /\ contexts[r].progress = 0

\* C1. Capacity: whatever the ticks did (admission, reservation with
\* evictions, execution, reclamation, re-admission), the active batch never
\* holds more than max_batch_size_tg requests.
C1_Capacity == Len(active_batch) <= max_batch_size_tg

\* A full batch holding a re-admitted request while another request waits.
C1_Witness ==
    /\ Len(active_batch) = max_batch_size_tg
    /\ \E r \in Range(active_batch) : Readmitted(r)
    /\ decode_pull_socket # <<>>

\* C2. Slot exclusivity: every member of the active batch (a key listed
\* once) holds one slot of the pool, that slot is not free, no two members
\* hold the same slot, and the claimed slots are exactly the slots held.
C2_SlotExclusivity ==
    /\ \A i, j \in 1 .. Len(active_batch) :
          i # j => active_batch[i] # active_batch[j]
    /\ \A r \in Range(active_batch) :
          /\ is_assigned_to_cache(contexts[r])
          /\ contexts[r].cache_seq_id \in CacheIndices
          /\ contexts[r].cache_seq_id \notin available_cache_indices
    /\ \A r1, r2 \in SlotHolders :
          r1 # r2 => contexts[r1].cache_seq_id # contexts[r2].cache_seq_id
    /\ CacheIndices \ available_cache_indices =
           {contexts[r].cache_seq_id : r \in SlotHolders}

\* A re-admitted request shares the batch with another member.
C2_Witness ==
    /\ Len(active_batch) >= 2
    /\ \E r \in Range(active_batch) : Readmitted(r)
    /\ pc = "schedule"

\* C3. Slot conservation: the free slots and the requests holding a slot
\* always add up to max_batch_size_tg.
C3_SlotConservation ==
    Cardinality(available_cache_indices) + Cardinality(SlotHolders)
        = max_batch_size_tg

\* A tick that evicted one request and reclaimed the slot of another.
C3_Witness ==
    /\ pc = "run"
    /\ preempted_decode # <<>>
    /\ reported_done # {}

\* C4. Fairness bias: when a reservation fails (a request joins the
\* preempted queue during the reservation loop) and other candidates remain,
\* the request evicted is the tail of the working list, which is the most
\* recently admitted of the candidates, and the failing candidate stays in
\* the batch to retry at the front; the failing candidate is evicted itself
\* only when it is the last one.
C4_FairnessBias ==
    [][(pc = "reserve" /\ preempted_decode' # preempted_decode) =>
          LET failing == Head(candidate_requests)
              victim == Last(preempted_decode')
          IN  /\ preempted_decode' = Append(preempted_decode, victim)
              /\ victim \notin Range(active_batch')
              /\ IF Len(candidate_requests) > 1
                 THEN /\ victim = Last(candidate_requests)
                      /\ victim # failing
                      /\ \A c \in Range(candidate_requests) \ {victim} :
                            IndexOf(active_batch, c)
                                < IndexOf(active_batch, victim)
                      /\ failing \in Range(active_batch')
                      /\ Head(candidate_requests') = failing
                 ELSE /\ victim = failing
                      /\ candidate_requests' = <<>>]_vars

\* The tail was evicted while the failing candidate and at least one more
\* candidate remain.
C4_Witness ==
    /\ pc = "reserve"
    /\ evictions >= 1
    /\ Len(candidate_requests) >= 2

\* C5. Preemption termination: every iteration of the reservation loop
\* shortens the working list, the loop can always take its next step or
\* leave, and one update_batch evicts at most max_batch_size_tg requests.
C5_PreemptionTermination ==
    /\ [](evictions <= max_batch_size_tg)
    /\ [](pc = "reserve" => ENABLED (ReserveStep \/ ReserveDone))
    /\ [][(pc = "reserve" /\ pc' = "reserve") =>
             Len(candidate_requests') < Len(candidate_requests)]_vars

\* Every member of a full batch was evicted in one reservation phase.
C5_Witness ==
    /\ pc = "reserve"
    /\ evictions = max_batch_size_tg
    /\ evictions >= 2

\* C6. Step-plan bound: the plan calculate_batch_num_steps returns for a
\* non-empty batch never exceeds max_forward_steps_tg.
C6_StepPlanBound ==
    pc = "schedule" => num_steps <= max_forward_steps_tg

\* The plan was made for a batch with a member over its budget and a member
\* whose available steps exceed max_forward_steps_tg.
C6_Witness ==
    /\ pc = "schedule"
    /\ \E r \in Range(active_batch) :
          /\ contexts[r].max_length # None
          /\ compute_num_available_steps(contexts[r], contexts[r].max_length)
                 > max_forward_steps_tg
    /\ \E r \in Range(active_batch) :
          /\ contexts[r].max_length # None
          /\ compute_num_available_steps(contexts[r], contexts[r].max_length)
                 < 0

\* The frames a response asks for: its tokens, and one more when it is done.
FramesNeeded(response) ==
    Len(response.tokens) + (IF response.is_done THEN 1 ELSE 0)

\* The largest FramesNeeded over the latest results (0 for none).
MaxFramesNeeded ==
    IF DOMAIN responses = {} THEN 0
    ELSE CHOOSE m \in {FramesNeeded(responses[r]) : r \in DOMAIN responses} :
             \A r \in DOMAIN responses : FramesNeeded(responses[r]) <= m

\* The frame list of the message the latest schedule_batch pushed.
Frames == response_push_socket[1]

\* C7 as stated: for non-empty results the message has exactly
\* MaxFramesNeeded frames.
C7_FrameCountAsStated ==
    (DOMAIN responses # {}) =>
        /\ Len(response_push_socket) = 1
        /\ Len(Frames) = MaxFramesNeeded

\* C7, amended: for non-empty results one message is pushed and it has
\* MaxFramesNeeded frames, or one (empty) frame when no request produced a
\* token or terminated.
C7_FrameCount ==
    (DOMAIN responses # {}) =>
        /\ Len(response_push_socket) = 1
        /\ Len(Frames) = Max(1, MaxFramesNeeded)

\* Two requests with different outputs: one terminated after its tokens,
\* the other produced fewer frames.
C7_Witness ==
    \E a, b \in DOMAIN responses :
        /\ responses[a].is_done
        /\ Len(responses[a].tokens) = 2
        /\ FramesNeeded(responses[b]) < 3
        /\ Len(Frames) = 3

\* C8. Frame membership: request r is in frame i (0-based) exactly when
\* i is below its token count, with its i-th token as the value, or r
\* terminated and i is its token count, with the stop sentinel as the
\* value; every frame a request needs exists, and frames hold nothing else.
C8_FrameMembership ==
    (DOMAIN responses # {}) =>
        /\ Len(response_push_socket) = 1
        /\ \A r \in DOMAIN responses : FramesNeeded(responses[r]) <= Len(Frames)
        /\ \A i \in 1 .. Len(Frames) :
              /\ DOMAIN Frames[i] \subseteq DOMAIN responses
              /\ \A r \in DOMAIN responses :
                    LET n == Len(responses[r].tokens)
                    IN  /\ (r \in DOMAIN Frames[i]) <=>
                               (i <= n \/ (responses[r].is_done /\ i = n + 1))
                        /\ i <= n => Frames[i][r] = responses[r].tokens[i]
                        /\ (responses[r].is_done /\ i = n + 1) =>
                               Frames[i][r] = STOP_STREAM

\* Request a produced one token and terminated, request b produced two and
\* continues: frame 1 holds a's stop sentinel beside b's second token.
C8_Witness ==
    \E a, b \in DOMAIN responses :
        /\ responses[a].is_done
        /\ Len(responses[a].tokens) = 1
        /\ ~responses[b].is_done
        /\ Len(responses[b].tokens) = 2

\* C9. Reclamation: from the end of a tick in which the generator reported
\* a request terminated until the next admission phase starts, the request
\* is not in the active batch and the slot it held is free.
C9_Reclamation ==
    \A d \in reported_done :
        /\ d[1] \notin Range(active_batch)
        /\ d[2] \in available_cache_indices

\* The next admission phase starts after a termination that left another
\* member in the batch.
C9_Witness ==
    /\ pc = "admit"
    /\ reported_done # {}
    /\ active_batch # <<>>

\* C10. Re-admission priority: a request is pulled from the decode socket
\* only while the preempted queue is empty, and the preempted queue is
\* first-in-first-out: it loses its head, which joins the active batch, or
\* gains a tail.
C10_ReadmissionPriority ==
    [][/\ (Len(decode_pull_socket') < Len(decode_pull_socket)) =>
             (preempted_decode = <<>> /\ preempted_decode' = <<>>)
       /\ (preempted_decode' # preempted_decode) =>
             \/ /\ preempted_decode # <<>>
                /\ preempted_decode' = Tail(preempted_decode)
                /\ Head(preempted_decode) \in Range(active_batch')
                /\ UNCHANGED decode_pull_socket
             \/ /\ Len(preempted_decode') = Len(preempted_decode) + 1
                /\ Front(preempted_decode') = preempted_decode]_vars

\* A preempted request is back in the batch, the preempted queue is empty
\* and a brand-new request is still waiting on the decode socket.
C10_Witness ==
    /\ pc = "admit"
    /\ preempted_decode = <<>>
    /\ decode_pull_socket # <<>>
    /\ \E r \in Range(active_batch) : Readmitted(r)

\* The release calls a step makes: what it appends to the log.
NewReleases ==
    IF Len(released') >= Len(released)
    THEN SubSeq(released', Len(released) + 1, Len(released'))
    ELSE <<>>

\* The requests whose context holds slot c in the contexts ctxs.
HoldersOf(ctxs, c) == {r \in DOMAIN ctxs : ctxs[r].cache_seq_id = c}

\* C11. Release before reuse: a step that returns slots to the free set
\* calls release exactly once for the request that held each of them, it
\* calls release for no other request, and a slot claimed in an admission
\* was free and held by no unreleased request, and is then held by the
\* admitted request alone; no free slot is ever held by a request.
C11_ReleaseBeforeReuse ==
    /\ [](\A c \in available_cache_indices : HoldersOf(contexts, c) = {})
    /\ [][LET freed == available_cache_indices' \ available_cache_indices
              claimed == available_cache_indices \ available_cache_indices'
              new == NewReleases
          IN  /\ \A c \in freed :
                    \E r \in HoldersOf(contexts, c) :
                        Cardinality({i \in 1 .. Len(new) : new[i][1] = r}) = 1
              /\ \A i \in 1 .. Len(new) :
                    /\ new[i][2] \in freed
                    /\ new[i][1] \in HoldersOf(contexts, new[i][2])
                    /\ \A j \in 1 .. Len(new) :
                          new[j][1] = new[i][1] => j = i
              /\ \A c \in claimed :
                    /\ HoldersOf(contexts, c) = {}
                    /\ Cardinality(HoldersOf(contexts', c)) = 1
                    /\ HoldersOf(contexts', c) \subseteq Range(active_batch')
         ]_vars

\* In one tick a request was released by eviction and another by
\* termination, and the next admission gave a released slot to a request
\* that did not hold it before.
C11_Witness ==
    /\ pc = "admit"
    /\ \E i, j \in 1 .. Len(released) :
          /\ released[i][1] \notin DOMAIN contexts
          /\ released[j][1] \in DOMAIN contexts
          /\ released[i][2] # released[j][2]
          /\ \E r \in Range(active_batch) :
                /\ r # released[j][1]
                /\ contexts[r].cache_seq_id = released[j][2]

\* Some member of the active batch has no remaining-length budget.
SomeMemberUnbudgeted ==
    \E r \in Range(active_batch) : contexts[r].max_length = None

\* A member's available steps before exhausting its own budget.
MemberAvailableSteps(r) ==
    compute_num_available_steps(contexts[r], contexts[r].max_length)

\* M: the largest MemberAvailableSteps over the active batch.
MaxMemberAvailableSteps ==
    CHOOSE m \in {MemberAvailableSteps(r) : r \in Range(active_batch)} :
        \A r \in Range(active_batch) : MemberAvailableSteps(r) <= m

\* C12 as stated: the plan is max_forward_steps_tg when a member has no
\* budget, else M when M < max_forward_steps_tg, else max_forward_steps_tg.
C12_StepPlanValueAsStated ==
    pc = "schedule" =>
        num_steps =
            IF SomeMemberUnbudgeted THEN max_forward_steps_tg
            ELSE IF MaxMemberAvailableSteps < max_forward_steps_tg
                 THEN MaxMemberAvailableSteps
                 ELSE max_forward_steps_tg

\* C12, amended: for a non-empty batch the plan is max_forward_steps_tg
\* when a member has no budget; otherwise it is M, the largest available
\* steps of a member (not the smallest), when 0 < M < max_forward_steps_tg,
\* and max_forward_steps_tg when M is not positive or not below it.
C12_StepPlanValue ==
    pc = "schedule" =>
        num_steps =
            IF SomeMemberUnbudgeted THEN max_forward_steps_tg
            ELSE IF /\ MaxMemberAvailableSteps > 0
                    /\ MaxMemberAvailableSteps < max_forward_steps_tg
                 THEN MaxMemberAvailableSteps
                 ELSE max_forward_steps_tg

\* The plan is the larger of two different positive member values, below
\* max_forward_steps_tg.
C12_Witness ==
    /\ pc = "schedule"
    /\ ~SomeMemberUnbudgeted
    /\ num_steps < max_forward_steps_tg
    /\ \E a, b \in Range(active_batch) :
          /\ MemberAvailableSteps(a) = num_steps
          /\ MemberAvailableSteps(b) > 0
          /\ MemberAvailableSteps(b) < num_steps

\* The slots request r gave up since the last admission phase ended.
FormerSlots(r) ==
    {released[i][2] : i \in {j \in 1 .. Len(released) : released[j][1] = r}}

\* C13 as stated: every request in the preempted queue has no slot
\* assignment, has its progress reset, and its former slot is in the free
\* set.
C13_PreemptedHoldNoSlotAsStated ==
    \A r \in Range(preempted_decode) :
        /\ ~is_assigned_to_cache(contexts[r])
        /\ contexts[r].progress = 0
        /\ FormerSlots(r) # {}
        /\ FormerSlots(r) \subseteq available_cache_indices

\* C13, amended: every request in the preempted queue has no slot
\* assignment and has its progress reset; its former slot went to the free
\* set when it was evicted, there are always at least as many free slots as
\* preempted requests, and on re-admission it claims a slot that was free
\* (not necessarily its former one, which a request re-admitted before it
\* may have claimed).
C13_PreemptedHoldNoSlot ==
    /\ [](\A r \in Range(preempted_decode) :
             /\ ~is_assigned_to_cache(contexts[r])
             /\ contexts[r].progress = 0)
    /\ [](Len(preempted_decode) <= Cardinality(available_cache_indices))
    /\ [][(Len(preempted_decode') > Len(preempted_decode)) =>
             contexts[Last(preempted_decode')].cache_seq_id
                 \in available_cache_indices' \ available_cache_indices]_vars
    /\ [][(Len(preempted_decode') < Len(preempted_decode)) =>
             LET r == Head(preempted_decode)
             IN  /\ contexts'[r].cache_seq_id \in available_cache_indices
                 /\ contexts'[r].cache_seq_id \notin available_cache_indices'
                 /\ contexts'[r].progress = 0]_vars

\* Two requests were preempted; the first is re-admitted on the former
\* slot of the second, which still waits in the preempted queue.
C13_Witness ==
    /\ pc = "admit"
    /\ \E r \in Range(preempted_decode), a \in Range(active_batch) :
          /\ Readmitted(a)
          /\ contexts[a].cache_seq_id \in FormerSlots(r)

\* C14 as stated: a request that holds a slot holds the slot it held
\* before its preemption; its slot id never changes to a different one.
C14_SlotPermanentAsStated ==
    \A r \in DOMAIN contexts :
        is_assigned_to_cache(contexts[r]) =>
            FormerSlots(r) \subseteq {contexts[r].cache_seq_id}

\* C14, amended: a context holds at most one slot (of the pool) at a time
\* and its slot id changes in two ways only: a request without a slot is
\* admitted and claims a slot that was free, or a request with a slot
\* leaves the batch by eviction and has no slot afterwards.  From an
\* admission to the next eviction or termination the slot id stays the
\* same; across a preemption it can differ.
C14_SlotPermanent ==
    /\ [](\A r \in DOMAIN contexts :
             contexts[r].cache_seq_id \in CacheIndices \cup {None})
    /\ [][\A r \in (DOMAIN contexts) \cap (DOMAIN contexts') :
             (contexts'[r].cache_seq_id # contexts[r].cache_seq_id) =>
                 \/ /\ ~is_assigned_to_cache(contexts[r])
                    /\ r \notin Range(active_batch)
                    /\ r \in Range(active_batch')
                    /\ contexts'[r].cache_seq_id
                           \in available_cache_indices
                               \ available_cache_indices'
                 \/ /\ is_assigned_to_cache(contexts[r])
                    /\ ~is_assigned_to_cache(contexts'[r])
                    /\ r \in Range(active_batch)
                    /\ r \notin Range(active_batch')]_vars

\* A re-admitted request holds a slot other than the one it held before
\* its preemption.
C14_Witness ==
    /\ pc = "admit"
    /\ \E r \in Range(active_batch) :
          /\ Readmitted(r)
          /\ FormerSlots(r) # {}
          /\ contexts[r].cache_seq_id \notin FormerSlots(r)

\* C15. Empty-batch early exit: when update_batch returns with an empty
\* active batch the loop goes back to its top and nothing is planned,
\* executed or pushed in that tick; with a non-empty batch it goes on to
\* plan.  calculate_batch_num_steps is never reached with an empty batch
\* and its RuntimeError is never raised.
C15_EmptyBatchEarlyExit ==
    /\ [](pc # "error")
    /\ [](pc \in {"plan", "schedule"} => active_batch # <<>>)
    /\ [][(pc = "reserve" /\ pc' # "reserve") =>
             IF active_batch = <<>>
             THEN /\ pc' = "run"
                  /\ num_steps' = 0
                  /\ responses' = <<>>
                  /\ executed' = <<>>
                  /\ response_push_socket' = <<>>
             ELSE pc' = "plan"]_vars

\* A tick skipped because the reservation phase evicted every member of a
\* full batch.
C15_Witness ==
    /\ pc = "run"
    /\ active_batch = <<>>
    /\ executed = <<>>
    /\ Len(preempted_decode) = max_batch_size_tg

\* The place of a position of run() in its cycle.
PhaseRank(p) ==
    CASE p = "forward" -> 1
      [] p = "admit" -> 2
      [] p = "reserve" -> 3
      [] p = "plan" -> 4
      [] p = "schedule" -> 5
      [] p = "run" -> 6
      [] p = "exit" -> 7
      [] OTHER -> 0

\* C16. Cooperative cancellation: the loop exits only from its top and only
\* when canceled; once canceled, the running cycle only moves forward
\* through its phases (no phase is entered again and no new cycle starts),
\* every phase still has its step to take, the top-of-cycle check that
\* follows exits, and the loop does exit.
C16_CooperativeCancellation ==
    /\ [][(pc' = "exit" /\ pc # "exit") => (pc = "run" /\ canceled)]_vars
    /\ [][(canceled /\ pc = "run" /\ pc' # pc) => pc' = "exit"]_vars
    /\ [][canceled => PhaseRank(pc') >= PhaseRank(pc)]_vars
    /\ [](canceled /\ pc # "exit" => ENABLED SchedulerStep)
    /\ (canceled ~> pc = "exit")

\* Canceled during the forwarding phase, the cycle still admitted, planned,
\* executed a batch and streamed its responses.
C16_Witness ==
    /\ canceled
    /\ canceled_in = "forward"
    /\ pc = "run"
    /\ executed # <<>>
    /\ response_push_socket # <<>>

\* The number of new requests that left the request socket and reached no
\* socket (their push raised).
LostRequests ==
    (next_new_request - 1)
        - Len(request_pull_socket) - Len(prefill_push_socket)

\* C17. Forwarding faults are swallowed: however the drain loop ends
\* (empty socket, failed pull, failed push), no error leaves it, the tick
\* goes on with admission, the pool, the active batch, the preempted queue
\* and the contexts are as before, the requests forwarded are the head of
\* the request socket, unmodified and in order, and the drain does not
\* resume in this tick.
C17_ForwardingFaultsSwallowed ==
    /\ [](pc # "error")
    /\ [][(pc = "forward" /\ pc' # "forward") =>
             /\ pc' = "admit"
             /\ UNCHANGED <<active_batch, available_cache_indices,
                            preempted_decode, contexts, decode_pull_socket,
                            candidate_requests>>
             /\ \E k \in 0 .. Len(request_pull_socket) :
                   /\ prefill_push_socket' =
                          prefill_push_socket
                              \o SubSeq(request_pull_socket, 1, k)
                   /\ \/ request_pull_socket' =
                             SubSeq(request_pull_socket, k + 1,
                                    Len(request_pull_socket))
                      \/ /\ k < Len(request_pull_socket)
                         /\ request_pull_socket' =
                                SubSeq(request_pull_socket, k + 2,
                                       Len(request_pull_socket))]_vars
    /\ [][(pc # "forward") => UNCHANGED <<request_pull_socket,
                                          prefill_push_socket>>]_vars

\* A failed pull left a request on the request socket and a failed push
\* lost another, and the tick went on with admission beside a running
\* batch.
C17_Witness ==
    /\ pc = "admit"
    /\ request_pull_socket # <<>>
    /\ LostRequests >= 1
    /\ active_batch # <<>>

\* C18. The batch given to next_token is exactly the set of requests whose
\* latest prefetch of the tick succeeded: during the reservation phase a
\* request with a successful prefetch stays in the batch and is not
\* evicted, a request that joins the preempted queue had no successful
\* prefetch, and what is planned for and executed is the reserved set.
C18_ExecutedAreReserved ==
    /\ [](pc \in {"plan", "schedule"} => Range(active_batch) = reserved)
    /\ [](executed # <<>> => Range(executed) = reserved)
    /\ [](reserved \cap Range(preempted_decode) = {})
    /\ [][(pc = "reserve") =>
             /\ reserved \subseteq reserved'
             /\ reserved' \subseteq Range(active_batch')
             /\ Range(preempted_decode') \ Range(preempted_decode)
                    \subseteq Range(active_batch) \ reserved]_vars

\* A tick executed a batch after its reservation phase evicted a request:
\* the batch is smaller than the pool and the evicted request waits.
C18_Witness ==
    /\ pc = "run"
    /\ executed # <<>>
    /\ Range(executed) = reserved
    /\ preempted_decode # <<>>
    /\ \E i \in 1 .. Len(released) : released[i][1] \in Range(preempted_decode)

\* The requests pulled from the decode socket so far (ids are unique).
PulledRequests == (1 .. (next_request - 1)) \ Range(decode_pull_socket)

\* The requests reported terminated so far: their context is gone.
TerminatedRequests == PulledRequests \ DOMAIN contexts

\* The sequence s lists no entry twice.
NoDuplicates(s) == \A i, j \in 1 .. Len(s) : s[i] = s[j] => i = j

\* C19. Request conservation: every request pulled from the decode socket
\* is in exactly one of the active batch, the preempted queue and the
\* requests reported terminated; neither collection lists a request twice,
\* they hold pulled requests only, and a request the latest tick reported
\* terminated is among the terminated.
C19_RequestConservation ==
    /\ NoDuplicates(active_batch)
    /\ NoDuplicates(preempted_decode)
    /\ Range(active_batch) \cup Range(preempted_decode) \subseteq PulledRequests
    /\ {d[1] : d \in reported_done} \subseteq TerminatedRequests
    /\ \A r \in PulledRequests :
          /\ \/ r \in Range(active_batch)
             \/ r \in Range(preempted_decode)
             \/ r \in TerminatedRequests
          /\ ~(r \in Range(active_batch) /\ r \in Range(preempted_decode))
          /\ ~(r \in Range(active_batch) /\ r \in TerminatedRequests)
          /\ ~(r \in Range(preempted_decode) /\ r \in TerminatedRequests)

\* One request runs, one waits preempted and one has terminated.
C19_Witness ==
    /\ active_batch # <<>>
    /\ preempted_decode # <<>>
    /\ TerminatedRequests # {}
    /\ Cardinality(PulledRequests) = MaxRequests

\* The requests evicted since the last admission phase ended and alive.
RecentlyEvicted ==
    {released[i][1] : i \in 1 .. Len(released)} \cap DOMAIN contexts

\* C20. The preempted queue is empty when the admission phase ends: every
\* request evicted in the previous tick is then back in the active batch,
\* and while a preempted request waits in the admission phase a free slot
\* is there for it.
C20_PreemptedDrained ==
    /\ [](pc = "admit" /\ preempted_decode # <<>> =>
             available_cache_indices # {})
    /\ [][(pc = "admit" /\ pc' # "admit") =>
             /\ preempted_decode = <<>>
             /\ preempted_decode' = <<>>
             /\ RecentlyEvicted \subseteq Range(active_batch')]_vars

\* The admission phase has just ended with two requests back in the batch
\* that the previous tick evicted, while a new request still waits.
C20_Witness ==
    /\ pc = "reserve"
    /\ candidate_requests = active_batch
    /\ evictions = 0
    /\ preempted_decode = <<>>
    /\ Cardinality({r \in Range(active_batch) : Readmitted(r)}) >= 2
    /\ decode_pull_socket # <<>>

====
